---- MODULE Spec2Model ----
(***************************************************************************)
(* Docket records of citation-docket / citation-utils: the serial          *)
(* normalizer (first_id, serial_text), the Docket record (construction,    *)
(* from_data, attribute assignment, equality) and the Administrative       *)
(* Matter scanner (am_phrases, CitationAdministrativeMatter.search).       *)
(*                                                                         *)
(* A Python str is a sequence of one-character strings, <<>> is "".        *)
(***************************************************************************)
EXTENDS Integers, Sequences, FiniteSets, TLC

VARIABLES
    ids,      \* SpecNorm: the raw ids of the Docket whose properties are read
    out,      \* SpecNorm: the values read so far
    pc,       \* SpecNorm: position of the reader
    recs,     \* Spec: the Docket objects alive, in construction order
    last,     \* Spec: the outcome of the last operation
    text,     \* SpecSearch: the scanned text, a sequence of lexemes
    gen,      \* SpecSearch: state of the generator returned by search(text)
    pos,      \* SpecSearch: offset at which the generator's finditer resumes
    events,   \* SpecSearch: what the caller received from next(), in order
    call,     \* SpecBuild: the constructor call made
    built     \* SpecBuild: what the call returned or raised

vars == <<ids, out, pc, recs, last, text, gen, pos, events, call, built>>

(***************************************************************************)
(* Bounds                                                                  *)
(***************************************************************************)
\* longest raw ids, in pieces (a separator or an id token), SpecNorm draws
MaxIdPieces == 4
\* most Docket objects alive at once
MaxRecs == 2
\* longest scanned text, in lexemes
MaxTextLen == 5

(***************************************************************************)
(* str operations                                                          *)
(***************************************************************************)
\* Python's None, where a str could stand as well
None == <<"None">>

\* Python truthiness of  str | None
Truthy(v) == v # None /\ v # <<>>

\* least 1-based index at which sub occurs in s, 0 when it does not
Find(sub, s) ==
    LET hits == {i \in 1..(Len(s) - Len(sub) + 1) :
                    SubSeq(s, i, i + Len(sub) - 1) = sub}
    IN  IF hits = {} THEN 0 ELSE CHOOSE i \in hits : \A j \in hits : i <= j

\* sub in s
Contains(sub, s) == Find(sub, s) # 0

\* s.split(sub)[0]  (s itself when sub does not occur)
SplitHead(sub, s) ==
    IF Contains(sub, s) THEN SubSeq(s, 1, Find(sub, s) - 1) ELSE s

StartsWith(s, p) == Len(p) <= Len(s) /\ SubSeq(s, 1, Len(p)) = p

LowerChar(c) ==
    CASE c = "A" -> "a" [] c = "N" -> "n" [] c = "D" -> "d"
      [] c = "P" -> "p" [] c = "M" -> "m" [] c = "G" -> "g" [] c = "R" -> "r"
      [] OTHER -> c

\* s.lower()
Lower(s) == [i \in 1..Len(s) |-> LowerChar(s[i])]

RECURSIVE LStrip(_)
LStrip(s) == IF s # <<>> /\ Head(s) = " " THEN LStrip(Tail(s)) ELSE s

RECURSIVE RStrip(_)
RStrip(s) ==
    IF s # <<>> /\ s[Len(s)] = " " THEN RStrip(SubSeq(s, 1, Len(s) - 1)) ELSE s

\* s.strip()
Strip(s) == RStrip(LStrip(s))

RECURSIVE Flat(_)
\* "".join(pieces)
Flat(pieces) == IF pieces = <<>> THEN <<>> ELSE Head(pieces) \o Flat(Tail(pieces))

SeqsUpTo(S, n) == UNION {[1..k -> S] : k \in 0..n}

(***************************************************************************)
(* Serial normalizer: Docket.first_id, Docket.serial_text                  *)
(***************************************************************************)
\* the list with "," put before "/"
SeparatorsSwapped ==
    << <<",">>, <<"/">>, <<";">>, <<" ","a","n","d"," ">>,
       <<" ","A","N","D"," ">>, <<"&">> >>

\* for char in ["/", ",", ";", " and ", " AND ", "&"]
Separators ==
    << <<"/">>, <<",">>, <<";">>, <<" ","a","n","d"," ">>,
       <<" ","A","N","D"," ">>, <<"&">> >>

\* text.split(char)[0] if char in text else None
first_exists(char, t) == IF Contains(char, t) THEN SplitHead(char, t) ELSE None

RECURSIVE first_id_from(_, _)
\* the for loop of first_id from the k-th separator on, then  return self.ids
first_id_from(k, s) ==
    IF k > Len(Separators) THEN s
    ELSE LET res == first_exists(Separators[k], s)
         IN  IF Truthy(res) THEN res ELSE first_id_from(k + 1, s)

RECURSIVE first_id_any_from(_, _)
first_id_any_from(k, s) ==
    IF k > Len(Separators) THEN s
    ELSE LET res == first_exists(Separators[k], s)
         IN  IF res # None THEN res ELSE first_id_any_from(k + 1, s)

\* first_id with  `if (res := ...) is not None`  for  `if res := ...`
first_id_not_none(s) == first_id_any_from(1, s)

first_id(s) == first_id_from(1, s)

\* the residual prefix a GR serial may keep
NoPrefix == <<"N","o","."," ">>

\* gr_prefix_clean: the text without its residual "No. " prefix, None when
\* there is nothing to clean
gr_prefix_clean(x) ==
    IF StartsWith(x, NoPrefix) THEN SubSeq(x, Len(NoPrefix) + 1, Len(x)) ELSE None

\* if x := self.first_id or self.ids:
\*     if adjust := gr_prefix_clean(x): return adjust
\* return x
serial_text(s) ==
    LET x == IF Truthy(first_id(s)) THEN first_id(s) ELSE s
    IN  IF Truthy(x) /\ Truthy(gr_prefix_clean(x)) THEN gr_prefix_clean(x) ELSE x

(***************************************************************************)
(* Administrative Matter scanner: am_phrases over a lexed text             *)
(*                                                                         *)
(* A text is a sequence of lexemes; a sub-pattern applied at offset i      *)
(* gives the offset after its match, 0 when it does not match there.       *)
(***************************************************************************)
KEY  == "A.M. "                \* am_key, with the separator run it takes
NUM  == "No. "                 \* Num.AM.allowed
OCA  == "OCA IPI "             \* OCA \s* (IPI | I\.P\.I\.) \s*
SER  == "P-88-198"             \* letter | digit
SEP  == ", "                   \* ([\,\s,\-\&] | and)*
DATE == "February 25, 1992"    \* a date the date collaborator resolves
WORD == "see "                 \* text that is none of the above
TAIL == ", 206 SCRA 491."      \* the report citation that ends a text

Lexemes == {KEY, NUM, OCA, SER, SEP, DATE, WORD}

\* the characters of a lexeme
Chars(x) ==
    CASE x = KEY  -> <<"A",".","M","."," ">>
      [] x = NUM  -> <<"N","o","."," ">>
      [] x = OCA  -> <<"O","C","A"," ","I","P","I"," ">>
      [] x = SER  -> <<"P","-","8","8","-","1","9","8">>
      [] x = SEP  -> <<","," ">>
      [] x = DATE -> <<"F","e","b","r","u","a","r","y"," ","2","5",","," ",
                       "1","9","9","2">>
      [] x = WORD -> <<"s","e","e"," ">>
      [] x = TAIL -> <<","," ","2","0","6"," ","S","C","R","A"," ","4","9","1",".">>

At(t, i) == IF i \in 1..Len(t) THEN t[i] ELSE ""

\* the characters of t[i..j-1]
Span(t, i, j) == Flat([k \in 1..(j - i) |-> Chars(t[i + k - 1])])

RECURSIVE StripLeft(_, _)
StripLeft(s, cs) ==
    IF s # <<>> /\ Head(s) \in cs THEN StripLeft(Tail(s), cs) ELSE s

RECURSIVE StripRight(_, _)
StripRight(s, cs) ==
    IF s # <<>> /\ s[Len(s)] \in cs
    THEN StripRight(SubSeq(s, 1, Len(s) - 1), cs) ELSE s

\* s.strip(cs)
StripSet(s, cs) == StripRight(StripLeft(s, cs), cs)

am_key(t, i) == IF At(t, i) = KEY THEN i + 1 ELSE 0

\* {am_key}? OCA \s* (IPI|I\.P\.I\.) \s* {Num.AM.allowed}
am_oca_ipi_num(t, i) ==
    LET j == IF am_key(t, i) # 0 THEN am_key(t, i) ELSE i
    IN  IF At(t, j) = OCA /\ At(t, j + 1) = NUM THEN j + 2 ELSE 0

\* {am_key} {Num.AM.allowed}
am_num(t, i) ==
    IF am_key(t, i) # 0 /\ At(t, am_key(t, i)) = NUM THEN am_key(t, i) + 1 ELSE 0

\* ({letter}) | ({digit})
am_middle(t, i) == IF At(t, i) = SER THEN i + 1 ELSE 0

RECURSIVE separators_run(_, _)
\* (?: ( [\,\s,\-\&] | and )* )?
separators_run(t, i) == IF At(t, i) = SEP THEN separators_run(t, i + 1) ELSE i

NoMatch == [start |-> 0, middle |-> 0, end |-> 0]

\* am_init without its bare-keyword alternative
am_init_no_bare_key(t, i) == <<am_oca_ipi_num(t, i), am_num(t, i)>>

\* (?P<am_init> am_oca_ipi_num | am_num | am_key ), the alternatives in order
am_init(t, i) == <<am_oca_ipi_num(t, i), am_num(t, i), am_key(t, i)>>

\* required: the first am_init alternative after which am_middle matches,
\* then the separator run
required(t, i) ==
    LET alts == am_init(t, i)
        good == {k \in 1..Len(alts) : alts[k] # 0 /\ am_middle(t, alts[k]) # 0}
    IN  IF good = {} THEN NoMatch
        ELSE LET k == CHOOSE a \in good : \A b \in good : a <= b
             IN  [start |-> i, middle |-> alts[k],
                  end |-> separators_run(t, am_middle(t, alts[k]))]

\* optional: (am_oca_ipi_num | am_num)? (letter | digit)? separators, greedy
optional(t, i) ==
    LET a == IF am_oca_ipi_num(t, i) # 0 THEN am_oca_ipi_num(t, i)
             ELSE IF am_num(t, i) # 0 THEN am_num(t, i) ELSE i
        b == IF am_middle(t, a) # 0 THEN am_middle(t, a) ELSE a
    IN  separators_run(t, b)

\* the repetition bound of  ({optional}){1,3}
MaxOptional == 3

RECURSIVE optional_times(_, _, _)
optional_times(t, i, n) ==
    IF n = 0 THEN i ELSE optional_times(t, optional(t, i), n - 1)

\* (?P<am_phrase> ({required}) ({optional}){1,3} ) at offset i
am_phrases(t, i) ==
    LET r == required(t, i)
    IN  IF r = NoMatch THEN NoMatch
        ELSE [r EXCEPT !.end = optional_times(t, r.end, MaxOptional)]

\* pattern.finditer: the leftmost match at or after offset i
next_match(t, i) ==
    LET hits == {k \in i..Len(t) : am_phrases(t, k) # NoMatch}
    IN  IF hits = {} THEN NoMatch
        ELSE am_phrases(t, CHOOSE k \in hits : \A l \in hits : k <= l)

\* calendar dates are <<year, month, day>>; NoDate is Python's None
NoDate == <<0, 0, 0>>

\* the date collaborator: the date right after offset i, if any
find_date_after(t, i) == IF At(t, i) = DATE THEN <<1992, 2, 25>> ELSE NoDate

AM_NAME  == <<"A","M">>
AM_VALUE == "Administrative Matter"
GR_NAME  == <<"G","R">>
GR_VALUE == "General Register"

\* Constructor.detect: the mapping of one occurrence
detect_result(t, m) ==
    [context        |-> StripSet(Span(t, m.start, m.end), {",", " "}),
     short_category |-> AM_NAME,
     category       |-> [kind |-> "str", name |-> <<>>, value |-> AM_VALUE],
     ids            |-> StripSet(Span(t, m.middle, m.end), {",", " "}),
     docket_date    |-> find_date_after(t, m.end)]

(***************************************************************************)
(* The Docket record                                                       *)
(***************************************************************************)
\* the DocketCategory enumeration: member name and value
DocketCategory ==
    {[name |-> AM_NAME, value |-> AM_VALUE], [name |-> GR_NAME, value |-> GR_VALUE]}

IsMemberName(n) == \E m \in DocketCategory : m.name = n

\* DocketCategory[n]
MemberNamed(n) ==
    LET m == CHOOSE x \in DocketCategory : x.name = n
    IN  [kind |-> "member", name |-> m.name, value |-> m.value]

\* a plain str given where a category is expected
PlainStr(v) == [kind |-> "str", name |-> <<>>, value |-> v]

UTILS  == "citation_utils.Docket"
DOCKET == "citation_docket.Docket"
CAM    == "CitationAdministrativeMatter"

\* no object
NoDocket ==
    [cls |-> "none", context |-> <<>>, short_category |-> <<>>,
     category |-> PlainStr(""), ids |-> <<>>, docket_date |-> NoDate]

Raised(e) == [res |-> e, rec |-> NoDocket]

\* model_config = ConfigDict(use_enum_values=True): the category field is
\* populated with the member's value, a plain str
use_enum_values(c) == PlainStr(c.value)

\* cls(**kw): pydantic validation of the fields, then the object; context
\* and ids are  str = Field(...),  which any str satisfies
validate(cls, kw) ==
    LET catOk   == \/ kw.category.kind = "member"
                   \/ \E m \in DocketCategory : m.value = kw.category.value
        shortOk == cls = UTILS \/ IsMemberName(kw.short_category)
        dateOk  == kw.docket_date # NoDate
    IN  IF catOk /\ shortOk /\ dateOk
        THEN [res |-> "ok",
              rec |-> [cls            |-> cls,
                       context        |-> kw.context,
                       short_category |-> IF cls = UTILS THEN <<>>
                                          ELSE kw.short_category,
                       category       |-> use_enum_values(kw.category),
                       ids            |-> kw.ids,
                       docket_date    |-> kw.docket_date]]
        ELSE Raised("ValidationError")

UpperChar(c) ==
    CASE c = "a" -> "A" [] c = "m" -> "M" [] c = "g" -> "G" [] c = "r" -> "R"
      [] OTHER -> c

\* s.upper()
Upper(s) == [i \in 1..Len(s) |-> UpperChar(s[i])]

JAN_1_2000 == <<"J","a","n"," ","1",","," ","2","0","0","0">>
NOT_A_DATE == <<"s","o","o","n">>

\* dateutil parse(s).date(); NoDate stands for the ParserError
parse(s) ==
    CASE s = JAN_1_2000  -> <<2000, 1, 1>>
      [] s = Chars(DATE) -> <<1992, 2, 25>>
      [] OTHER           -> NoDate

\* the value a key of the mapping stands for
RoleOf(key) ==
    CASE key \in {"cat", "category"} -> "cat"
      [] key \in {"num", "number"}   -> "num"
      [] OTHER                       -> "date"

\* data.get(key)
Get(data, key) == IF key \in data.keys THEN data[RoleOf(key)] ELSE None

\* from_data reading the mapping under the key "number"
from_data_keys_number == [cat |-> "cat", num |-> "number", date |-> "date"]

\* cat, num, date = data.get("cat"), data.get("num"), data.get("date")
from_data_keys == [cat |-> "cat", num |-> "num", date |-> "date"]

\* from_data handing the number over as context
from_data_kwargs_context(member, num, d) ==
    [context |-> num, short_category |-> <<>>, category |-> member,
     ids |-> num, docket_date |-> d]

\* cls(context="", category=..., ids=num, docket_date=...)
from_data_kwargs(member, num, d) ==
    [context |-> <<>>, short_category |-> <<>>, category |-> member,
     ids |-> num, docket_date |-> d]

\* Docket.from_data(data)
from_data(data) ==
    LET cat  == Get(data, from_data_keys.cat)
        num  == Get(data, from_data_keys.num)
        date == Get(data, from_data_keys.date)
    IN  IF ~Truthy(cat) \/ ~Truthy(num) \/ ~Truthy(date)
        THEN Raised("Exception: Missing field")
        ELSE IF ~IsMemberName(Upper(cat)) THEN Raised("KeyError")
        ELSE IF parse(date) = NoDate THEN Raised("ParserError")
        ELSE validate(UTILS, from_data_kwargs(MemberNamed(Upper(cat)), num, parse(date)))

\* next(CitationAdministrativeMatter.search(text))
search_first(t) ==
    IF next_match(t, 1) = NoMatch THEN Raised("StopIteration")
    ELSE validate(CAM, detect_result(t, next_match(t, 1)))

DigitChar(k) ==
    CASE k = 0 -> "0" [] k = 1 -> "1" [] k = 2 -> "2" [] k = 3 -> "3"
      [] k = 4 -> "4" [] k = 5 -> "5" [] k = 6 -> "6" [] k = 7 -> "7"
      [] k = 8 -> "8" [] k = 9 -> "9"

RECURSIVE Pad(_, _)
\* n in w digits, zero padded
Pad(n, w) == IF w = 0 THEN <<>> ELSE Pad(n \div 10, w - 1) \o <<DigitChar(n % 10)>>

\* date.isoformat()
isoformat(d) == Pad(d[1], 4) \o <<"-">> \o Pad(d[2], 2) \o <<"-">> \o Pad(d[3], 2)

\* citation_report's is_eq: equal up to case and surrounding whitespace
is_eq(a, b) == Truthy(a) /\ Truthy(b) /\ Lower(Strip(a)) = Lower(Strip(b))

BoolStr(b) == IF b THEN "True" ELSE "False"

\* citation_utils Docket.__eq__(self, other)
docket_eq(self, other) ==
    IF self.category.kind # "member" \/ other.category.kind # "member"
    THEN "AttributeError"
    ELSE BoolStr(/\ is_eq(self.category.name, other.category.name)
                 /\ is_eq(first_id(self.ids), first_id(other.ids))
                 /\ is_eq(isoformat(self.docket_date), isoformat(other.docket_date)))

\* BaseModel.__eq__, which the citation_docket Docket does not override:
\* same class and equal fields
base_model_eq(self, other) == BoolStr(self = other)

\* self == other
eq(self, other) ==
    IF self.cls = UTILS THEN docket_eq(self, other) ELSE base_model_eq(self, other)

(***************************************************************************)
(* SpecNorm: the derived properties read on a Docket with given raw ids    *)
(***************************************************************************)
\* what a raw ids is made of: the six separators and two id tokens
IdPieces == {Separators[k] : k \in 1..Len(Separators)} \cup {<<"1">>, <<"2">>}

\* the valid raw ids: non-empty, with or without the residual prefix
RawIds ==
    {Flat(p) : p \in SeqsUpTo(IdPieces, MaxIdPieces) \ {<<>>}}
    \cup {NoPrefix \o Flat(p) : p \in SeqsUpTo(IdPieces, MaxIdPieces - 1) \ {<<>>}}

NoOut == [first_id |-> None, serial_text |-> None, again |-> None]

NoKw ==
    [context |-> <<>>, short_category |-> <<>>, category |-> PlainStr(""),
     ids |-> <<>>, docket_date |-> NoDate]
NoData == [keys |-> {}, cat |-> <<>>, num |-> <<>>, date |-> <<>>]
NoCall == [kind |-> "none", cls |-> "none", kw |-> NoKw, data |-> NoData, text |-> <<>>]
Pending == Raised("pending")
NoLast == [op |-> "none", res |-> "none", a |-> 0, b |-> 0]

\* the variables a specification does not use
NormIdle   == ids = <<>> /\ out = NoOut /\ pc = "none"
HeapIdle   == recs = <<>> /\ last = NoLast
SearchIdle == text = <<>> /\ gen = "none" /\ pos = 1 /\ events = <<>>
BuildIdle  == call = NoCall /\ built = Pending

InitNorm ==
    /\ ids \in RawIds
    /\ out = NoOut
    /\ pc = "built"
    /\ HeapIdle /\ SearchIdle /\ BuildIdle

\* docket.first_id
ReadFirstId ==
    /\ pc = "built"
    /\ out' = [out EXCEPT !.first_id = first_id(ids)]
    /\ pc' = "first_id"
    /\ UNCHANGED <<ids, recs, last, text, gen, pos, events, call, built>>

\* docket.serial_text
ReadSerialText ==
    /\ pc = "first_id"
    /\ out' = [out EXCEPT !.serial_text = serial_text(ids)]
    /\ pc' = "serial_text"
    /\ UNCHANGED <<ids, recs, last, text, gen, pos, events, call, built>>

\* Docket(ids=docket.serial_text, ...).serial_text
Renormalize ==
    /\ pc = "serial_text"
    /\ out' = [out EXCEPT !.again = serial_text(out.serial_text)]
    /\ pc' = "again"
    /\ UNCHANGED <<ids, recs, last, text, gen, pos, events, call, built>>

NextNorm == ReadFirstId \/ ReadSerialText \/ Renormalize

SpecNorm == InitNorm /\ [][NextNorm]_vars

(***************************************************************************)
(* SpecBuild: one constructor call and its outcome                         *)
(***************************************************************************)
RTJ_12_2317 == <<"R","T","J","-","1","2","-","2","3","1","7">>

\* lexeme sequences in which no separator run, serial or other text is
\* split in two
TextBodies ==
    {t \in SeqsUpTo(Lexemes, MaxTextLen) :
        \A i \in 1..(Len(t) - 1) : t[i] = t[i + 1] => t[i] \notin {SEP, SER, WORD}}

\* a text may end with the report citation
Texts == TextBodies \cup {Append(t, TAIL) : t \in TextBodies}

CategoryInputs ==
    {MemberNamed(AM_NAME), MemberNamed(GR_NAME), PlainStr(AM_VALUE),
     PlainStr("Civil Case")}

IdsInputs ==
    {<<>>, <<" ">>, <<"p","-","1">>, <<"P","-","1",",","2">>, RTJ_12_2317}

ContextInputs == {<<>>, <<"s","e","e">>}

DateInputs == {<<1992, 2, 25>>, <<2000, 1, 1>>, NoDate}

\* the acronym passed along with a category
ShortFor(c) == IF c.value = GR_VALUE THEN GR_NAME ELSE AM_NAME

\* Docket(context=..., category=..., ids=..., docket_date=...)
DocketCalls ==
    {[kind |-> "Docket", cls |-> c,
      kw |-> [context |-> x, short_category |-> ShortFor(k), category |-> k,
              ids |-> i, docket_date |-> d],
      data |-> NoData, text |-> <<>>] :
        c \in {UTILS, DOCKET}, x \in ContextInputs, k \in CategoryInputs,
        i \in IdsInputs, d \in DateInputs}

\* the mappings handed to from_data: keyed cat/num/date or
\* category/number/date, any of the keys left out
DataInputs ==
    {[keys |-> ks, cat |-> c, num |-> n, date |-> d] :
        ks \in (SUBSET {"cat", "num", "date"}) \cup (SUBSET {"category", "number", "date"}),
        c \in {<<"A","M">>, <<"g","r">>, <<"X","X">>, <<>>},
        n \in {RTJ_12_2317, <<"P","-","1",",","2">>, <<" ">>, <<>>},
        d \in {JAN_1_2000, Chars(DATE), NOT_A_DATE, <<>>}}

FromDataCalls ==
    {[kind |-> "from_data", cls |-> UTILS, kw |-> NoKw, data |-> d, text |-> <<>>] :
        d \in DataInputs}

SearchCalls ==
    {[kind |-> "search", cls |-> CAM, kw |-> NoKw, data |-> NoData, text |-> t] :
        t \in Texts}

Calls == DocketCalls \cup FromDataCalls \cup SearchCalls

InitBuild ==
    /\ call \in Calls
    /\ built = Pending
    /\ NormIdle /\ HeapIdle /\ SearchIdle

\* Docket(**kw)
CallDocket ==
    /\ built = Pending /\ call.kind = "Docket"
    /\ built' = validate(call.cls, call.kw)
    /\ UNCHANGED <<ids, out, pc, recs, last, text, gen, pos, events, call>>

\* Docket.from_data(data)
CallFromData ==
    /\ built = Pending /\ call.kind = "from_data"
    /\ built' = from_data(call.data)
    /\ UNCHANGED <<ids, out, pc, recs, last, text, gen, pos, events, call>>

\* next(CitationAdministrativeMatter.search(text))
CallSearchFirst ==
    /\ built = Pending /\ call.kind = "search"
    /\ built' = search_first(call.text)
    /\ UNCHANGED <<ids, out, pc, recs, last, text, gen, pos, events, call>>

NextBuild == CallDocket \/ CallFromData \/ CallSearchFirst

SpecBuild == InitBuild /\ [][NextBuild]_vars

(***************************************************************************)
(* Spec: Docket objects over their lifetime: built, assigned to, compared  *)
(***************************************************************************)
\* what a constructor call returns or raises
Outcome(c) ==
    CASE c.kind = "Docket"    -> validate(c.cls, c.kw)
      [] c.kind = "from_data" -> from_data(c.data)
      [] c.kind = "search"    -> search_first(c.text)

\* the constructor calls made while objects are kept
HeapCalls ==
    {c \in DocketCalls :
        /\ c.kw.context = <<"s","e","e">>
        /\ c.kw.ids \in {<<"p","-","1">>, <<"P","-","1",",","2">>}
        /\ c.kw.category \in {MemberNamed(AM_NAME), MemberNamed(GR_NAME), PlainStr("Civil Case")}}
    \cup {c \in FromDataCalls :
            /\ c.data.keys \in {{"cat", "num", "date"}, {"cat", "date"}}
            /\ c.data.cat = <<"A","M">>
            /\ c.data.num = <<"P","-","1",",","2">>
            /\ c.data.date = Chars(DATE)}
    \cup {c \in SearchCalls :
            c.text \in {<<KEY, NUM, SER, SEP, DATE>>, <<KEY, SER, WORD>>}}

HeapOutcomes == {Outcome(c) : c \in HeapCalls}

Fields == {"context", "category", "ids", "docket_date"}

\* the values assigned to a field
Assignable(f) ==
    CASE f = "context"     -> {<<>>, <<"s","e","e">>}
      [] f = "category"    -> {PlainStr(AM_VALUE), PlainStr(GR_VALUE)}
      [] f = "ids"         -> {<<>>, <<"p","-","1">>}
      [] f = "docket_date" -> {<<1992, 2, 25>>, <<2000, 1, 1>>}

Init ==
    /\ recs = <<>>
    /\ last = NoLast
    /\ NormIdle /\ SearchIdle /\ BuildIdle

\* a constructor call: the new object joins the others, or the call raises
Construct ==
    /\ Len(recs) < MaxRecs
    /\ \E o \in HeapOutcomes :
          /\ recs' = IF o.res = "ok" THEN Append(recs, o.rec) ELSE recs
          /\ last' = [op |-> "construct", res |-> o.res,
                      a |-> IF o.res = "ok" THEN Len(recs) + 1 ELSE 0, b |-> 0]
    /\ UNCHANGED <<ids, out, pc, text, gen, pos, events, call, built>>

\* docket.<field> = value: the model is not frozen and does not validate
\* assignments, so the attribute is simply set
SetAttr ==
    /\ \E i \in 1..Len(recs), f \in Fields :
          \E v \in Assignable(f) :
              /\ recs' = [recs EXCEPT ![i][f] = v]
              /\ last' = [op |-> "setattr", res |-> "ok", a |-> i, b |-> 0]
    /\ UNCHANGED <<ids, out, pc, text, gen, pos, events, call, built>>

\* docket_a == docket_b
Compare ==
    /\ \E i \in 1..Len(recs), j \in 1..Len(recs) :
          last' = [op |-> "eq", res |-> eq(recs[i], recs[j]), a |-> i, b |-> j]
    /\ UNCHANGED <<ids, out, pc, recs, text, gen, pos, events, call, built>>

Next == Construct \/ SetAttr \/ Compare

Spec == Init /\ [][Next]_vars

(***************************************************************************)
(* SpecSearch: a caller iterating search(text), going on after errors      *)
(***************************************************************************)
Item(r)  == [kind |-> "item", rec |-> r]
Error(e) == [kind |-> e, rec |-> NoDocket]

\* the caller has seen the sequence end
Exhausted == events # <<>> /\ events[Len(events)].kind = "StopIteration"

\* g = CitationAdministrativeMatter.search(text): nothing has run yet
InitSearch ==
    /\ text \in Texts
    /\ gen = "created"
    /\ pos = 1
    /\ events = <<>>
    /\ NormIdle /\ HeapIdle /\ BuildIdle

\* next(g): the loop takes the next occurrence and yields cls(**result)
NextYields ==
    /\ ~Exhausted /\ gen # "closed"
    /\ next_match(text, pos) # NoMatch
    /\ LET m == next_match(text, pos)
           o == validate(CAM, detect_result(text, m))
       IN  /\ o.res = "ok"
           /\ events' = Append(events, Item(o.rec))
           /\ pos' = m.end
           /\ gen' = "suspended"
    /\ UNCHANGED <<ids, out, pc, recs, last, text, call, built>>

\* next(g): cls(**result) raises inside the generator, which ends it
NextRaises ==
    /\ ~Exhausted /\ gen # "closed"
    /\ next_match(text, pos) # NoMatch
    /\ LET m == next_match(text, pos)
           o == validate(CAM, detect_result(text, m))
       IN  /\ o.res # "ok"
           /\ events' = Append(events, Error(o.res))
           /\ gen' = "closed"
    /\ UNCHANGED <<ids, out, pc, recs, last, text, pos, call, built>>

\* next(g): the generator has ended, or no occurrence is left
NextStops ==
    /\ ~Exhausted
    /\ gen = "closed" \/ next_match(text, pos) = NoMatch
    /\ events' = Append(events, Error("StopIteration"))
    /\ gen' = "closed"
    /\ UNCHANGED <<ids, out, pc, recs, last, text, pos, call, built>>

NextSearch == NextYields \/ NextRaises \/ NextStops

SpecSearch == InitSearch /\ [][NextSearch]_vars

(***************************************************************************)
(* Properties of the serial normalizer (SpecNorm)                          *)
(***************************************************************************)
\* the separator priority order as the specification lists it
PriorityOrder ==
    << <<"/">>, <<",">>, <<";">>, <<" ","a","n","d"," ">>,
       <<" ","A","N","D"," ">>, <<"&">> >>

Least(S) == CHOOSE i \in S : \A j \in S : i <= j

\* the separators of the priority list that occur in s
Occurring(s) == {k \in 1..Len(PriorityOrder) : Contains(PriorityOrder[k], s)}

\* those whose first occurrence leaves a non-empty part before it
Splitting(s) == {k \in 1..Len(PriorityOrder) : Find(PriorityOrder[k], s) > 1}

\* C1 as stated: first_id is the part of ids before the first occurrence of
\* the first separator, in priority order, that occurs in ids at all, and
\* ids itself when none occurs.
C1_FirstOccurringSeparatorWins ==
    pc # "built" =>
        out.first_id =
            IF Occurring(ids) = {} THEN ids
            ELSE SplitHead(PriorityOrder[Least(Occurring(ids))], ids)

\* C1 amended: first_id is the part of ids before the first occurrence of
\* the first separator, in priority order, whose first occurrence leaves a
\* non-empty part before it, and ids itself when there is no such separator.
C1_FirstSplittingSeparatorWins ==
    pc # "built" =>
        out.first_id =
            IF Splitting(ids) = {} THEN ids
            ELSE SplitHead(PriorityOrder[Least(Splitting(ids))], ids)

\* C1 witness: "/" leads the ids and is passed over, ";" and "," both split
\* it, ";" comes earlier in the text, and "," (earlier in the list) decides.
C1_Witness ==
    /\ pc = "first_id"
    /\ Find(<<"/">>, ids) = 1
    /\ Find(<<";">>, ids) > 1
    /\ Find(<<";">>, ids) < Find(<<",">>, ids)
    /\ out.first_id = SplitHead(<<",">>, ids)
    /\ out.first_id # ids

\* C2 as stated: normalizing an already normalized serial_text returns it
\* unchanged, serial_text(serial_text(x)) = serial_text(x).
C2_SerialTextIdempotent ==
    pc = "again" => out.again = out.serial_text

\* C10: for non-empty ids, first_id is a non-empty prefix of ids, and when it
\* is shorter than ids a separator of the list follows it in ids.
C10_FirstIdNonEmptyPrefix ==
    pc # "built" =>
        /\ out.first_id # <<>>
        /\ StartsWith(ids, out.first_id)
        /\ out.first_id # ids =>
              \E k \in 1..Len(PriorityOrder) :
                  StartsWith(SubSeq(ids, Len(out.first_id) + 1, Len(ids)),
                             PriorityOrder[k])

\* C10 witness: "/" is at position 0 of the ids, so the part before it is
\* empty, and a later separator of the list gave a shorter, non-empty id.
C10_Witness ==
    /\ pc = "first_id"
    /\ Find(<<"/">>, ids) = 1
    /\ out.first_id # ids
    /\ out.first_id # <<>>

(***************************************************************************)
(* Properties of the constructors (SpecBuild)                              *)
(***************************************************************************)
\* C4 as stated: a call whose ids is empty or whitespace-only produces no
\* record, so every Docket that exists has ids that are not blank.
C4_BlankIdsRejected ==
    built.res = "ok" => Strip(built.rec.ids) # <<>>

\* key k is in the mapping, with a non-empty value
Given(d, k) == k \in d.keys /\ d[RoleOf(k)] # <<>>

\* the category names a member and the date string is a date
Resolvable(d) == IsMemberName(Upper(d.cat)) /\ parse(d.date) # NoDate

\* a number that holds no separator and no residual prefix
PlainNumber(n) == Occurring(n) = {} /\ ~StartsWith(n, NoPrefix)

\* C5 as stated: from_data on a mapping with the keys category, number and
\* date all present succeeds with a record whose serial_text is the number;
\* with one of them absent it raises the missing-field error, no record.
C5_CategoryNumberDateKeys ==
    (call.kind = "from_data" /\ built # Pending) =>
        LET d == call.data
            complete == Given(d, "category") /\ Given(d, "number") /\ Given(d, "date")
        IN  /\ (complete /\ Resolvable(d) /\ PlainNumber(d.num)) =>
                  (built.res = "ok" /\ serial_text(built.rec.ids) = d.num)
            /\ ~complete => built = Raised("Exception: Missing field")

\* C5 amended: from_data on a mapping with the keys cat, num and date all
\* present and non-empty, cat naming a category and date a date, succeeds
\* with a record whose ids is the number, and whose serial_text is the number
\* when it holds no separator and no prefix; with one of cat, num, date
\* absent or empty it raises the missing-field error and returns no record.
C5_CatNumDateKeys ==
    (call.kind = "from_data" /\ built # Pending) =>
        LET d == call.data
            complete == Given(d, "cat") /\ Given(d, "num") /\ Given(d, "date")
        IN  /\ (complete /\ Resolvable(d)) =>
                  /\ built.res = "ok"
                  /\ built.rec.cls = UTILS
                  /\ built.rec.ids = d.num
                  /\ built.rec.docket_date = parse(d.date)
                  /\ PlainNumber(d.num) => serial_text(built.rec.ids) = d.num
            /\ ~complete => built = Raised("Exception: Missing field")

\* C5 witness: {cat: AM, num: RTJ-12-2317, date: Jan 1, 2000} gave a record
\* whose serial_text is RTJ-12-2317.
C5_Witness ==
    /\ call.kind = "from_data"
    /\ call.data = [keys |-> {"cat", "num", "date"}, cat |-> <<"A","M">>,
                    num |-> RTJ_12_2317, date |-> JAN_1_2000]
    /\ built.res = "ok"
    /\ serial_text(built.rec.ids) = RTJ_12_2317
    /\ built.rec.docket_date = <<2000, 1, 1>>

\* C8 as stated: the context of every record built by the match-based
\* constructor or by from_data is a non-empty string.
C8_ContextNeverEmpty ==
    (call.kind \in {"search", "from_data"} /\ built.res = "ok") =>
        built.rec.context # <<>>

\* C8 amended: the context of every record built by the match-based
\* constructor is a non-empty string, and the context of every record built
\* by from_data is the empty string.
C8_ContextEmptyOnlyFromData ==
    /\ (call.kind = "search" /\ built.res = "ok") => built.rec.context # <<>>
    /\ (call.kind = "from_data" /\ built.res = "ok") => built.rec.context = <<>>

\* C8 witness: from_data built a record, with ids and an empty context.
C8_Witness ==
    /\ call.kind = "from_data"
    /\ built.res = "ok"
    /\ built.rec.ids = RTJ_12_2317
    /\ built.rec.context = <<>>

(***************************************************************************)
(* Properties of Docket objects over their lifetime (Spec)                 *)
(***************************************************************************)
LooselyEqual(x, y) == Lower(Strip(x)) = Lower(Strip(y))

\* same category, loosely equal first_id, same calendar date
SameDocket(x, y) ==
    /\ x.category.value = y.category.value
    /\ LooselyEqual(first_id(x.ids), first_id(y.ids))
    /\ x.docket_date = y.docket_date

\* C3 as stated: == on two records completes with a boolean, true exactly
\* when they have the same category, loosely equal first_id and the same
\* docket_date, whatever their context and the rest of their ids.
C3_EqualityByCategoryFirstIdDate ==
    last.op = "eq" =>
        last.res = BoolStr(SameDocket(recs[last.a], recs[last.b]))

\* C9 as stated: no operation on a constructed record changes its stored
\* fields.
C9_ImmutableAfterConstruction ==
    [][\A i \in 1..Len(recs) : recs'[i] = recs[i]]_vars

(***************************************************************************)
(* Properties of the scanner (SpecSearch)                                  *)
(***************************************************************************)
\* the well-formed leading clauses: keyword, keyword and number marker,
\* and the OCA IPI forms
LeadingClauses == {<<KEY>>, <<KEY, NUM>>, <<OCA, NUM>>, <<KEY, OCA, NUM>>}

\* t holds the lexemes p from offset k on
HoldsAt(t, k, p) == k + Len(p) - 1 <= Len(t) /\ SubSeq(t, k, k + Len(p) - 1) = p

\* p, at offset k, is the only place of t with a keyword
OnlyOccurrence(t, k, p) ==
    /\ HoldsAt(t, k, p)
    /\ \A i \in 1..Len(t) :
          (i < k \/ i >= k + Len(p)) => t[i] \notin {KEY, OCA}

\* the record of the occurrence with leading clause c
ExpectedRecord(c) ==
    [cls |-> CAM, context |-> Flat([i \in 1..Len(c) |-> Chars(c[i])]) \o Chars(SER),
     short_category |-> AM_NAME, category |-> PlainStr(AM_VALUE),
     ids |-> Chars(SER), docket_date |-> <<1992, 2, 25>>]

IsPrefixOf(s, full) == Len(s) <= Len(full) /\ SubSeq(full, 1, Len(s)) = s

\* C6: on a text with exactly one well-formed AM occurrence followed by a
\* date, search yields exactly one record: category Administrative Matter,
\* context the phrase without the trailing separator and date, ids the
\* serial token (so first_id too), docket_date the date that follows.
C6_OneOccurrenceOneRecord ==
    \A k \in 1..Len(text) : \A c \in LeadingClauses : \A sep \in {<<>>, <<SEP>>} :
        OnlyOccurrence(text, k, c \o <<SER>> \o sep \o <<DATE>>) =>
            LET whole == <<Item(ExpectedRecord(c)), Error("StopIteration")>>
            IN  /\ IsPrefixOf(events, whole)
                /\ Exhausted => events = whole
                /\ first_id(ExpectedRecord(c).ids) = Chars(SER)

\* C6 witness: 'A.M. No. P-88-198, February 25, 1992, 206 SCRA 491.' was
\* scanned to the end and gave one record with context 'A.M. No. P-88-198'.
C6_Witness ==
    /\ text = <<KEY, NUM, SER, SEP, DATE, TAIL>>
    /\ Exhausted
    /\ Len(events) = 2
    /\ events[1].kind = "item"
    /\ events[1].rec.context =
          <<"A",".","M","."," ","N","o","."," ","P","-","8","8","-","1","9","8">>
    /\ events[1].rec.ids = <<"P","-","8","8","-","1","9","8">>
    /\ first_id(events[1].rec.ids) = <<"P","-","8","8","-","1","9","8">>
    /\ events[1].rec.docket_date = <<1992, 2, 25>>

RECURSIVE OccurrencesFrom(_, _)
\* the outcomes of cls(**result) for every occurrence at or after offset i
OccurrencesFrom(t, i) ==
    IF next_match(t, i) = NoMatch THEN <<>>
    ELSE <<validate(CAM, detect_result(t, next_match(t, i)))>>
         \o OccurrencesFrom(t, next_match(t, i).end)

Built(o) == o.res = "ok"
IsItem(e) == e.kind = "item"

\* the records of the valid occurrences of t, in order
ValidRecords(t) ==
    LET ok == SelectSeq(OccurrencesFrom(t, 1), Built)
    IN  [i \in 1..Len(ok) |-> ok[i].rec]

\* the records the caller received
Received ==
    LET items == SelectSeq(events, IsItem)
    IN  [i \in 1..Len(items) |-> items[i].rec]

\* C7 as stated: a caller that catches the validation errors and keeps
\* iterating receives the records of all valid occurrences, those after an
\* invalid one included.
C7_LaterOccurrencesObtained ==
    Exhausted => Received = ValidRecords(text)

====
